---- MODULE Spec2Model ----
(***************************************************************************)
(* A model of the Daily-Market-Brief pipeline:                             *)
(*   upstream API -> raw store (bronze) -> curated store (silver)          *)
(*   -> signal engine,                                                     *)
(* together with the worker pool of ingest_prices and the sliding-window   *)
(* RateLimiter the workers share.                                          *)
(*                                                                         *)
(* Three specifications share the variables:                               *)
(*   Spec      the pipeline operations, each call one atomic action;       *)
(*   SpecPool  one run of ingest_prices, its futures completing one by one *)
(*             in any order;                                               *)
(*   SpecRL    RateLimiter.acquire, statement by statement, called by      *)
(*             several threads on one shared instance.                     *)
(* Calendar days and trading dates are the naturals 1..n in the order of   *)
(* their ISO strings; prices and volumes are small integers.               *)
(***************************************************************************)
EXTENDS Integers, Sequences, FiniteSets, Bags, TLC

\* ------------------------------------------------------------------ bounds
MaxDay == 2
MaxDate == 2
MaxLevel == 1
MaxSigDate == 3
MaxSigLevel == 2
MaxTime == 3
MaxCalls == 3
RLLimit == 2
RLPeriod == 2
Scale == 1000
MaxBars == 62
LongBars == 253

Symbols == {"AAA", "BBB"}
Threads == {"t1", "t2"}
Days == 1..MaxDay
Dates == 1..MaxDate
Levels == 0..MaxLevel
SigDates == 1..MaxSigDate
SigLevels == 0..MaxSigLevel

VARIABLES
    today,               \* date.today(), as a day number
    bronze_universe,     \* day -> rows of bronze/universe/ingestion_date=<day>.parquet ({}: no file)
    bronze_prices,       \* day -> rows of bronze/prices/ingestion_date=<day>.parquet ({}: no file)
    tables,              \* names of the tables in the DuckDB catalog
    silver_universe,     \* bag of rows of table silver_universe
    silver_price_daily,  \* bag of rows of table silver_price_daily
    last_call,           \* the pipeline call that returned or raised last
    ip_pc,               \* ingest_prices: "idle" or "pool" (inside the executor block)
    futures,             \* ingest_prices: symbol -> its future
    frames,              \* ingest_prices: the list frames
    sig,                 \* the last compute_signals call: its arguments and outcome
    rl_clock,            \* time.time()
    rl_calls,            \* RateLimiter._calls, the deque of timestamps
    rl_thread,           \* thread -> where it is in acquire, and its locals
    rl_started,          \* the acquire calls made so far
    rl_admitted,         \* the timestamps acquire recorded, in the order of the appends
    rl_raised,           \* an acquire call ended in IndexError
    get_thread,          \* thread -> its FMPClient._get call: where it is, and its locals
    fetched              \* a direct _fetch_prices_for_symbol call: its symbol, the reply, its value

pipeVars == <<today, bronze_universe, bronze_prices, tables, silver_universe,
              silver_price_daily, last_call>>

poolVars == <<ip_pc, futures, frames>>

rlVars == <<rl_clock, rl_calls, rl_thread, rl_started, rl_admitted, rl_raised, get_thread>>

vars == <<pipeVars, poolVars, sig, rlVars, fetched>>

\* ------------------------------------------------------- upstream replies
\* One constituent record of /stable/sp500-constituent.
Constituent(s) ==
    [symbol |-> s, name |-> s, sector |-> "Tech", subSector |-> "Software"]

\* The replies of get_sp500_constituents: a list of distinct constituents.
ConstituentReplies == {{Constituent(s) : s \in S} : S \in SUBSET Symbols}

\* One upstream end-of-day bar of level v on trading date d.
UpBar(d, v) ==
    [date |-> d, open |-> v, high |-> v + 1, low |-> v, close |-> v,
     adjClose |-> v, volume |-> v]

\* A history: one bar of level v for each of the first n trading dates.
History(n, v) == [d \in 1..n |-> UpBar(d, v)]

Histories == {History(n, v) : n \in Dates, v \in Levels}

\* ------------------------------------------------------------ raw store
\* ingest_universe: df = DataFrame(raw); df["ingestion_date"] = today.
UniverseFrame(raw, day) ==
    {[symbol |-> c.symbol, name |-> c.name, sector |-> c.sector,
      subSector |-> c.subSector, ingestion_date |-> day] : c \in raw}

\* DataFrame.to_parquet(out_path): the file of that path holds the frame.
to_parquet(store, day, frame) == [store EXCEPT ![day] = frame]

\* sorted(glob("ingestion_date=*.parquet")): the days that have a file.
Glob(store) == {d \in Days : store[d] # {}}

Max(S) == CHOOSE x \in S : \A y \in S : y <= x

\* _load_latest_universe_parquet: paths[-1] of the sorted paths.
load_latest_universe_parquet == Max(Glob(bronze_universe))

\* symbols = sorted(uni_df["symbol"].unique())
UniverseSymbols(day) == {r.symbol : r \in bronze_universe[day]}

\* pandas' missing value (NaN / NaT) in a frame cell; no upstream number is negative.
NaN == 0 - 1

\* A date string pandas.to_datetime cannot parse.
BadDate == 0 - 2

\* The shapes get_historical_prices_eod can come back in: the call raises
\* ("throw"), a bare list of bars ("list"), an object wrapping the list under
\* "historical" ("dict"), or any other JSON value ("other").
Reply(kind, bars) == [kind |-> kind, bars |-> bars]

\* The value of fetch_prices_for_symbol: None, a frame, or an exception that
\* escapes it ("raise").
Fetched(kind, rows) == [kind |-> kind, rows |-> rows]

FetchedNone == Fetched("none", {})

\* _normalize_hist_response(symbol, resp): the list of bars, or None (here <<>>
\* with ok = FALSE).
normalize_hist_response(resp) ==
    LET hist == IF resp.kind \in {"dict", "list"} THEN resp.bars ELSE <<>>
    IN  IF resp.kind \notin {"dict", "list"} THEN [ok |-> FALSE, hist |-> <<>>]
        ELSE IF hist = <<>> THEN [ok |-> FALSE, hist |-> <<>>]
        ELSE [ok |-> TRUE, hist |-> hist]

\* DataFrame(hist): the columns are the union of the records' keys, a cell of
\* a key its record lacks is NaN.
Columns(hist) == UNION {DOMAIN hist[i] : i \in DOMAIN hist}

Cell(b, c) == IF c \in DOMAIN b THEN b[c] ELSE NaN

\* The adj_close cell is the adjClose cell, whatever the columns are.
AdjCloseOnly(b, cols) == Cell(b, "adjClose")

\* The adj_close cell of a record after the column normalisation of lines 65-74.
AdjCloseCell(b, cols) ==
    IF "adj_close" \in cols THEN Cell(b, "adj_close")
    ELSE IF "adjClose" \in cols THEN Cell(b, "adjClose")
    ELSE Cell(b, "close")

required_cols == {"symbol", "date", "open", "high", "low", "close", "adj_close", "volume"}

\* _fetch_prices_for_symbol(symbol, client), given what the client call does.
fetch_prices_for_symbol(symbol, resp) ==
    LET norm == normalize_hist_response(resp)
        hist == norm.hist
        cols == Columns(hist)
        cols2 == (IF "adjClose" \in cols /\ "adj_close" \notin cols
                  THEN (cols \ {"adjClose"}) \cup {"adj_close"} ELSE cols)
        cols3 == cols2 \cup {"adj_close", "symbol"}
    IN  IF resp.kind = "throw" THEN FetchedNone
        ELSE IF ~norm.ok THEN FetchedNone
        ELSE IF "adj_close" \notin cols2 /\ "close" \notin cols2 THEN FetchedNone
        ELSE IF "date" \notin cols2 THEN FetchedNone
        ELSE IF \E i \in DOMAIN hist : Cell(hist[i], "date") = BadDate
             THEN Fetched("raise", {})
        ELSE IF ~(required_cols \subseteq cols3) THEN FetchedNone
        ELSE Fetched("frame",
                 {[symbol |-> symbol,
                   date |-> Cell(hist[i], "date"),
                   open |-> Cell(hist[i], "open"),
                   high |-> Cell(hist[i], "high"),
                   low |-> Cell(hist[i], "low"),
                   close |-> Cell(hist[i], "close"),
                   adj_close |-> AdjCloseCell(hist[i], cols),
                   volume |-> Cell(hist[i], "volume")] : i \in DOMAIN hist})

\* A direct call of _fetch_prices_for_symbol: not made ("idle"), made with the
\* client's reply at hand ("called"), or returned with its value ("returned").
FetchCall(pc, symbol, resp, result) ==
    [pc |-> pc, symbol |-> symbol, resp |-> resp, result |-> result]

NoFetch == FetchCall("idle", "", Reply("other", <<>>), FetchedNone)

\* Every frame is kept, None and empty ones too.
KeepAny(f) == TRUE

\* future.result() in the loop of ingest_prices: an exception of the worker
\* is logged and the frame is None.
future_result(f) == IF f.kind = "raise" THEN FetchedNone ELSE f

\* "if df is not None and not df.empty": the frame enters frames.
KeepFrame(f) == f.kind = "frame" /\ f.rows # {}

\* The elements of a list.
Range(q) == {q[i] : i \in DOMAIN q}

\* pd.concat(frames) with the ingestion_date column added.
PriceBatch(fs, day) ==
    {[symbol |-> r.symbol, date |-> r.date, open |-> r.open, high |-> r.high,
      low |-> r.low, close |-> r.close, adj_close |-> r.adj_close,
      volume |-> r.volume, ingestion_date |-> day] : r \in UNION Range(fs)}

\* How a call ended: it raised or returned; for a build, whether the table it
\* wrote was in the catalog before.
CallResult(op, raised, replaced) == [op |-> op, raised |-> raised, replaced |-> replaced]

\* ================================================================ ingestion
\* A future: not yet done ("pending"), done and not yet yielded by
\* as_completed ("done"), or yielded ("seen"); res is the worker's value.
Future(state, res) == [state |-> state, res |-> res]

NoFutures == [s \in {} |-> Future("pending", FetchedNone)]

\* The replies a worker's get_historical_prices_eod call can get.
PoolReplies ==
    {Reply("throw", <<>>), Reply("other", <<>>), Reply("list", <<>>), Reply("dict", <<>>),
     Reply("list", <<[date |-> 1, open |-> 1, high |-> 1, low |-> 1, volume |-> 1]>>),
     Reply("list", <<[UpBar(1, 1) EXCEPT !.date = BadDate]>>)}
    \cup {Reply(k, h) : k \in {"list", "dict"}, h \in Histories}

InitPipe ==
    /\ today = 1
    /\ bronze_universe = [d \in Days |-> {}]
    /\ bronze_prices = [d \in Days |-> {}]
    /\ tables = {}
    /\ silver_universe = EmptyBag
    /\ silver_price_daily = EmptyBag
    /\ last_call = CallResult("none", FALSE, FALSE)

InitPool ==
    /\ ip_pc = "idle"
    /\ futures = NoFutures
    /\ frames = <<>>

\* None for a run_date (cfg.run_date unset, or the argument left out).
NoDate == 0

NoSignals ==
    [status |-> "none", cfg_run_date |-> NoDate, arg |-> NoDate, run_date |-> NoDate,
     df |-> <<>>, con |-> "none"]

\* The locals of a thread in acquire.
Local(pc, phase, now, window_start, wake) ==
    [pc |-> pc, phase |-> phase, now |-> now, window_start |-> window_start, wake |-> wake]

\* A dict, as the set of its (key, value) items.
Dict(items) == items

\* An Optional[dict] argument: None, or a dict object with these items.
OptionalDict(none, items) == [none |-> none, dict |-> Dict(items)]

\* The public methods of FMPClient: the path and the params each hands to _get.
Requests ==
    {[method |-> "get_sp500_constituents", path |-> "/stable/sp500-constituent",
      params |-> OptionalDict(TRUE, {})],
     [method |-> "get_historical_prices_eod", path |-> "/stable/historical-price-eod/full",
      params |-> OptionalDict(FALSE, {<<"symbol", "AAA">>})],
     [method |-> "get_stock_news", path |-> "/stable/news/stock",
      params |-> OptionalDict(FALSE, {<<"symbols", "AAA">>, <<"limit", "50">>})]}

\* A thread's _get call: the request, the caller's params object as it is
\* now, the local params, the acquire calls made and returned, the HTTP GETs
\* issued, what the last GET carried, and how the call ended.
GetLocal(pc, request, caller_params, params, acquires, acquired, gets, sent, outcome) ==
    [pc |-> pc, request |-> request, caller_params |-> caller_params, params |-> params,
     acquires |-> acquires, acquired |-> acquired, gets |-> gets, sent |-> sent,
     outcome |-> outcome]

NoRequest == [method |-> "none", path |-> "", params |-> OptionalDict(TRUE, {})]

NoGet == GetLocal("idle", NoRequest, NoRequest.params, Dict({}), 0, FALSE, 0,
                  [path |-> "", params |-> Dict({})], "none")

\* A fresh RateLimiter(limit = RLLimit, period = RLPeriod), no thread in acquire.
InitRL ==
    /\ get_thread = [t \in Threads |-> NoGet]
    /\ rl_clock = 0
    /\ rl_calls = <<>>
    /\ rl_thread = [t \in Threads |-> Local("idle", 1, 0, 0, 0)]
    /\ rl_started = 0
    /\ rl_admitted = <<>>
    /\ rl_raised = FALSE

\* The program before its first ingestion and its first upstream call.
InitIngest == InitPipe /\ InitPool /\ fetched = NoFetch /\ sig = NoSignals /\ InitRL

\* The calendar moves on to the next day.
NextDay ==
    /\ today < MaxDay
    /\ today' = today + 1
    /\ UNCHANGED <<bronze_universe, bronze_prices, tables, silver_universe,
                   silver_price_daily, last_call, poolVars, sig, rlVars, fetched>>

\* ingest_universe(cfg, client)
ingest_universe ==
    /\ ip_pc = "idle"
    /\ \E raw \in ConstituentReplies :
          IF raw = {}
          THEN /\ last_call' = CallResult("ingest_universe", TRUE, FALSE)
               /\ UNCHANGED bronze_universe
          ELSE /\ bronze_universe' = to_parquet(bronze_universe, today, UniverseFrame(raw, today))
               /\ last_call' = CallResult("ingest_universe", FALSE, FALSE)
    /\ UNCHANGED <<today, bronze_prices, tables, silver_universe, silver_price_daily,
                   poolVars, sig, rlVars, fetched>>

\* ingest_prices, lines 98-112: the latest universe is read and one future
\* per symbol is submitted; without a universe file the call raises.
ingest_prices_submit ==
    /\ ip_pc = "idle"
    /\ IF Glob(bronze_universe) = {}
       THEN /\ last_call' = CallResult("ingest_prices", TRUE, FALSE)
            /\ UNCHANGED poolVars
       ELSE /\ ip_pc' = "pool"
            /\ futures' = [s \in UniverseSymbols(load_latest_universe_parquet) |->
                              Future("pending", FetchedNone)]
            /\ frames' = <<>>
            /\ last_call' = CallResult("none", FALSE, FALSE)
    /\ UNCHANGED <<today, bronze_universe, bronze_prices, tables, silver_universe,
                   silver_price_daily, sig, rlVars, fetched>>

\* A worker runs _fetch_prices_for_symbol for one symbol to its end.
worker_fetch(s) ==
    /\ ip_pc = "pool"
    /\ s \in DOMAIN futures
    /\ futures[s].state = "pending"
    /\ \E reply \in PoolReplies :
          futures' = [futures EXCEPT ![s] = Future("done", fetch_prices_for_symbol(s, reply))]
    /\ UNCHANGED <<pipeVars, ip_pc, frames, sig, rlVars, fetched>>

\* One round of "for future in as_completed(futures)", lines 113-123.
collect(s) ==
    /\ ip_pc = "pool"
    /\ s \in DOMAIN futures
    /\ futures[s].state = "done"
    /\ LET df == future_result(futures[s].res)
       IN  /\ futures' = [futures EXCEPT ![s].state = "seen"]
           /\ frames' = IF KeepFrame(df) THEN Append(frames, df.rows) ELSE frames
    /\ UNCHANGED <<pipeVars, ip_pc, sig, rlVars, fetched>>

\* ingest_prices, lines 128-141, once every future was yielded.
ingest_prices_write ==
    /\ ip_pc = "pool"
    /\ \A s \in DOMAIN futures : futures[s].state = "seen"
    /\ ip_pc' = "idle"
    /\ IF frames = <<>>
       THEN /\ last_call' = CallResult("ingest_prices", TRUE, FALSE)
            /\ UNCHANGED bronze_prices
       ELSE /\ bronze_prices' = to_parquet(bronze_prices, today, PriceBatch(frames, today))
            /\ last_call' = CallResult("ingest_prices", FALSE, FALSE)
    /\ UNCHANGED <<today, bronze_universe, tables, silver_universe, silver_price_daily,
                   futures, frames, sig, rlVars, fetched>>

NextIngest ==
    \/ NextDay
    \/ ingest_universe
    \/ ingest_prices_submit
    \/ \E s \in Symbols : worker_fetch(s)
    \/ \E s \in Symbols : collect(s)
    \/ ingest_prices_write

SpecIngest == InitIngest /\ [][NextIngest]_vars


\* -------------------------------------------------------- ingestion: claims
\* C4: a raw snapshot file, once written, is never changed or replaced by a
\* later ingestion: every step leaves each existing file of the raw universe
\* store and of the raw price store as it was.
C4_RawFilesNeverReplaced ==
    [][\A d \in Days :
          /\ bronze_universe[d] # {} => bronze_universe'[d] = bronze_universe[d]
          /\ bronze_prices[d] # {} => bronze_prices'[d] = bronze_prices[d]]_vars

\* C9: when ingest_prices ends after its pool, the workers were those of the
\* symbols of the latest universe snapshot; if no fetch yielded a frame with
\* rows the call raises and the raw price store is as it was; otherwise the
\* call returns and today's file holds exactly the bars of the symbols whose
\* fetch yielded rows, stamped with today. Futures are collected in any order.
C9_BatchOfSucceededSymbols ==
    [][(ip_pc = "pool" /\ ip_pc' = "idle") =>
          LET succeeded == {s \in DOMAIN futures :
                               futures[s].res.kind = "frame" /\ futures[s].res.rows # {}}
              bars == UNION {futures[s].res.rows : s \in succeeded}
              batch == {[symbol |-> r.symbol, date |-> r.date, open |-> r.open,
                         high |-> r.high, low |-> r.low, close |-> r.close,
                         adj_close |-> r.adj_close, volume |-> r.volume,
                         ingestion_date |-> today] : r \in bars}
          IN  /\ DOMAIN futures = UniverseSymbols(load_latest_universe_parquet)
              /\ last_call'.op = "ingest_prices"
              /\ last_call'.raised <=> succeeded = {}
              /\ succeeded = {} => bronze_prices' = bronze_prices
              /\ succeeded # {} =>
                    /\ bronze_prices' = [bronze_prices EXCEPT ![today] = batch]
                    /\ {r.symbol : r \in bronze_prices'[today]} = succeeded]_vars

\* C9's case: ingest_prices has returned after a pool of two workers, the
\* fetch of one having failed and the other having yielded bars, and the file
\* it wrote holds the bars of one symbol.
C9_Witness ==
    /\ last_call = CallResult("ingest_prices", FALSE, FALSE)
    /\ ip_pc = "idle"
    /\ DOMAIN futures = Symbols
    /\ \E s \in Symbols : futures[s].res.kind # "frame"
    /\ {r.symbol : r \in bronze_prices[today]} \in {{"AAA"}, {"BBB"}}

\* ================================================ one fetch call alone
\* A record without some of its keys.
Without(b, keys) == [k \in DOMAIN b \ keys |-> b[k]]

\* The bars a reply can carry for trading date d: the full bar with an
\* adjusted close of its own, the bar with adj_close in place of adjClose,
\* and bars lacking the adjusted close, the close, both, the date or the
\* volume, or with a date that does not parse.
FetchBars(d) ==
    LET full == [UpBar(d, 1) EXCEPT !.adjClose = 2]
        bare == Without(full, {"adjClose"})
    IN  {full,
         bare,
         [k \in DOMAIN bare \cup {"adj_close"} |-> IF k = "adj_close" THEN 2 ELSE bare[k]],
         Without(full, {"close"}),
         Without(full, {"close", "adjClose"}),
         Without(full, {"date"}),
         Without(full, {"volume"}),
         [full EXCEPT !.date = BadDate]}

\* The lists of at most two bars, the bar of date 1 first.
FetchLists ==
    {<<>>} \cup {<<a>> : a \in FetchBars(1)}
           \cup {<<a, b>> : a \in FetchBars(1), b \in FetchBars(2)}

FetchReplies ==
    {Reply("throw", <<>>), Reply("other", <<>>)}
    \cup {Reply(k, h) : k \in {"list", "dict"}, h \in FetchLists}

\* _fetch_prices_for_symbol(symbol, client) is called and the client's call
\* has come back with some reply.
InitFetch ==
    /\ InitPipe
    /\ InitPool
    /\ sig = NoSignals
    /\ InitRL
    /\ \E s \in Symbols, resp \in FetchReplies :
          fetched = FetchCall("called", s, resp, FetchedNone)

\* The call returns, or its exception escapes.
fetch_return ==
    /\ fetched.pc = "called"
    /\ fetched' = [fetched EXCEPT !.pc = "returned",
                       !.result = fetch_prices_for_symbol(fetched.symbol, fetched.resp)]
    /\ UNCHANGED <<pipeVars, poolVars, sig, rlVars>>

NextFetch == fetch_return

SpecFetch == InitFetch /\ [][NextFetch]_vars

\* The same bars in the other of the two reply shapes.
OtherShape(resp) ==
    Reply(IF resp.kind = "list" THEN "dict" ELSE "list", resp.bars)

\* No bar of the reply carries an adjusted close under either name.
NoAdjustedClose(resp) ==
    \A i \in DOMAIN resp.bars :
        "adjClose" \notin DOMAIN resp.bars[i] /\ "adj_close" \notin DOMAIN resp.bars[i]

\* C18: a bare list of bars and an object wrapping the same list under
\* "historical" give the same value of _fetch_prices_for_symbol, and when no
\* bar carries adjClose or adj_close every row's adj_close is its close.
C18_SameFrameForBothShapes ==
    (fetched.pc = "returned" /\ fetched.resp.kind \in {"list", "dict"}) =>
        /\ fetched.result = fetch_prices_for_symbol(fetched.symbol, OtherShape(fetched.resp))
        /\ NoAdjustedClose(fetched.resp) =>
              \A r \in fetched.result.rows : r.adj_close = r.close

\* A wrapped list of two bars without an adjusted close came back as a frame
\* of two rows whose adj_close is the close.
C18_Witness ==
    /\ fetched.pc = "returned"
    /\ fetched.resp.kind = "dict"
    /\ Len(fetched.resp.bars) = 2
    /\ NoAdjustedClose(fetched.resp)
    /\ fetched.result.kind = "frame"
    /\ Cardinality(fetched.result.rows) = 2
    /\ \A r \in fetched.result.rows : r.adj_close = r.close /\ r.close = 1

\* Some record of the reply lacks the date or the close.
LacksRequiredField(resp) ==
    \E i \in DOMAIN resp.bars :
        "date" \notin DOMAIN resp.bars[i] \/ "close" \notin DOMAIN resp.bars[i]

\* C19: when a record of the reply lacks date or close, the symbol is
\* skipped: its frame does not enter the frames of the batch.
C19_MissingFieldSkipsSymbol ==
    (fetched.pc = "returned" /\ LacksRequiredField(fetched.resp)) =>
        ~KeepFrame(future_result(fetched.result))


\* ============================================================ curated store
\* A glob without a match taken for an empty input.
AlwaysFound(store) == FALSE

\* INSERT INTO t <query>: the rows are added to those the table holds.
InsertInto(old, new) == old (+) new

\* The row number under ORDER BY ingestion_date ASC.
row_number_asc(r, rows) ==
    1 + Cardinality({q \in rows : /\ q.symbol = r.symbol
                                  /\ q.date = r.date
                                  /\ q.ingestion_date < r.ingestion_date})

\* read_parquet('<glob>') finds no file: DuckDB ends the statement with an
\* IO error.
NoFilesFound(store) == Glob(store) = {}

\* read_parquet('<glob>'): the rows of every file the glob matches.
read_parquet(store) == UNION {store[d] : d \in Glob(store)}

\* CREATE OR REPLACE TABLE t AS <query>
CreateOrReplaceTable(old, new) == new

\* The SELECT list of build_silver_universe.
SilverUniverseRow(r) ==
    [symbol |-> r.symbol, company_name |-> r.name, sector |-> r.sector,
     sub_sector |-> r.subSector, is_active |-> TRUE]

\* The query of build_silver_universe: one output row per input row.
SilverUniverseQuery(store) ==
    LET out == {SilverUniverseRow(r) : r \in read_parquet(store)}
    IN  [x \in out |-> Cardinality({r \in read_parquet(store) : SilverUniverseRow(r) = x})]

\* ROW_NUMBER() OVER (PARTITION BY symbol, date ORDER BY ingestion_date DESC);
\* a file holds a (symbol, date) once and all its rows carry its own
\* ingestion_date, so the order within a partition is total.
row_number(r, rows) ==
    1 + Cardinality({q \in rows : /\ q.symbol = r.symbol
                                  /\ q.date = r.date
                                  /\ q.ingestion_date > r.ingestion_date})

\* The outer SELECT list of build_silver_price_daily.
SilverPriceRow(r) ==
    [symbol |-> r.symbol, date |-> r.date, open |-> r.open, high |-> r.high,
     low |-> r.low, close |-> r.close, adj_close |-> r.adj_close, volume |-> r.volume]

\* The query of build_silver_price_daily.
SilverPriceQuery(store) ==
    LET rows == read_parquet(store)
        kept == {r \in rows : row_number(r, rows) = 1}
        out == {SilverPriceRow(r) : r \in kept}
    IN  [x \in out |-> Cardinality({r \in kept : SilverPriceRow(r) = x})]

\* build_silver_universe(cfg)
build_silver_universe ==
    /\ IF NoFilesFound(bronze_universe)
       THEN /\ last_call' = CallResult("build_silver_universe", TRUE, FALSE)
            /\ UNCHANGED <<tables, silver_universe>>
       ELSE /\ silver_universe' =
                   CreateOrReplaceTable(silver_universe, SilverUniverseQuery(bronze_universe))
            /\ tables' = tables \cup {"silver_universe"}
            /\ last_call' = CallResult("build_silver_universe", FALSE,
                                       "silver_universe" \in tables)
    /\ UNCHANGED <<today, bronze_universe, bronze_prices, silver_price_daily, poolVars, sig, rlVars, fetched>>

\* build_silver_price_daily(cfg)
build_silver_price_daily ==
    /\ IF NoFilesFound(bronze_prices)
       THEN /\ last_call' = CallResult("build_silver_price_daily", TRUE, FALSE)
            /\ UNCHANGED <<tables, silver_price_daily>>
       ELSE /\ silver_price_daily' =
                   CreateOrReplaceTable(silver_price_daily, SilverPriceQuery(bronze_prices))
            /\ tables' = tables \cup {"silver_price_daily"}
            /\ last_call' = CallResult("build_silver_price_daily", FALSE,
                                       "silver_price_daily" \in tables)
    /\ UNCHANGED <<today, bronze_universe, bronze_prices, silver_universe, poolVars, sig, rlVars, fetched>>

\* The price file an ingestion of the given day leaves when each symbol's
\* fetch got the given list of bars (<<>>: the symbol is not in the file).
PriceFile(hist, day) ==
    PriceBatch([i \in 1..1 |->
                   UNION {fetch_prices_for_symbol(s, Reply("list", hist[s])).rows : s \in Symbols}],
               day)

\* The raw stores the builds are run on: what ingest_universe and
\* ingest_prices can have left by day MaxDay. A price file needs a universe
\* file of its day or an earlier one.
Init ==
    /\ today = MaxDay
    /\ \E u \in [Days -> ConstituentReplies] :
          bronze_universe = [d \in Days |-> UniverseFrame(u[d], d)]
    /\ \E h \in [Days -> [Symbols -> Histories \cup {<<>>}]] :
          bronze_prices = [d \in Days |-> PriceFile(h[d], d)]
    /\ \A d \in Glob(bronze_prices) :
          \/ d \in Glob(bronze_universe)
          \/ /\ \E e \in Glob(bronze_universe) : e < d
             /\ {r.symbol : r \in bronze_prices[d]}
                   \subseteq UniverseSymbols(Max({e \in Glob(bronze_universe) : e < d}))
    /\ tables = {}
    /\ silver_universe = EmptyBag
    /\ silver_price_daily = EmptyBag
    /\ last_call = CallResult("none", FALSE, FALSE)
    /\ InitPool
    /\ fetched = NoFetch
    /\ sig = NoSignals
    /\ InitRL

Next ==
    \/ build_silver_universe
    \/ build_silver_price_daily

Spec == Init /\ [][Next]_vars


\* ---------------------------------------------------- curated store: claims
\* C1: once build_silver_price_daily has run, silver_price_daily holds exactly
\* one row for each (symbol, date) of any raw batch and no other row, and the
\* row of a key is, field by field, the one of the batch with the greatest
\* ingestion_date among the batches holding the key.
C1_OneRowPerKeyFromLatestBatch ==
    LET raw == UNION {bronze_prices[d] : d \in Days}
        latest(s, dt) ==
            CHOOSE r \in raw :
                /\ r.symbol = s
                /\ r.date = dt
                /\ \A q \in raw : (q.symbol = s /\ q.date = dt) => q.ingestion_date <= r.ingestion_date
        fields(r) ==
            [symbol |-> r.symbol, date |-> r.date, open |-> r.open, high |-> r.high,
             low |-> r.low, close |-> r.close, adj_close |-> r.adj_close, volume |-> r.volume]
    IN  "silver_price_daily" \in tables =>
            /\ \A r \in raw : CopiesIn(fields(latest(r.symbol, r.date)), silver_price_daily) = 1
            /\ \A x \in BagToSet(silver_price_daily) :
                  /\ \E r \in raw : r.symbol = x.symbol /\ r.date = x.date
                  /\ x = fields(latest(x.symbol, x.date))

\* C1's case: the table is built from two batches that hold one key with
\* different closes, and from a key only the older batch holds.
C1_Witness ==
    /\ "silver_price_daily" \in tables
    /\ \E r \in bronze_prices[1], q \in bronze_prices[2] :
          r.symbol = q.symbol /\ r.date = q.date /\ r.close # q.close
    /\ \E r \in bronze_prices[1] :
          \A q \in bronze_prices[2] : ~(r.symbol = q.symbol /\ r.date = q.date)

\* C2: once build_silver_universe has run, silver_universe holds exactly one
\* row per symbol of the snapshot with the latest ingestion key, each with
\* is_active = TRUE, and no row of a symbol only older snapshots hold.
C2_LatestSnapshotOnly ==
    "silver_universe" \in tables =>
        LET latest == bronze_universe[Max(Glob(bronze_universe))]
        IN  /\ \A r \in latest :
                  \E x \in BagToSet(silver_universe) :
                      x.symbol = r.symbol /\ x.is_active /\ CopiesIn(x, silver_universe) = 1
            /\ \A x \in BagToSet(silver_universe) : \E r \in latest : r.symbol = x.symbol

\* C3: a rebuild over an unchanged raw store leaves the rows of a table that
\* was already built as they were (the raw store never changes under Spec).
C3_RebuildIdempotent ==
    [][/\ "silver_universe" \in tables => silver_universe' = silver_universe
       /\ "silver_price_daily" \in tables => silver_price_daily' = silver_price_daily]_vars

\* C3's case: a build has just replaced a table that held rows, over a raw
\* store of two batches with a common key.
C3_Witness ==
    /\ last_call.replaced
    /\ last_call.op = "build_silver_price_daily"
    /\ silver_price_daily # EmptyBag
    /\ \E r \in bronze_prices[1], q \in bronze_prices[2] : r.symbol = q.symbol /\ r.date = q.date

\* C5: without a raw snapshot a build ends in an error and neither creates nor
\* replaces its table, and a build that succeeded had a snapshot to read and
\* left a table with rows.
C5_EmptyRawStoreFails ==
    /\ Glob(bronze_prices) = {} => "silver_price_daily" \notin tables
    /\ Glob(bronze_universe) = {} => "silver_universe" \notin tables
    /\ last_call.op = "build_silver_price_daily" =>
          (last_call.raised <=> Glob(bronze_prices) = {})
    /\ last_call.op = "build_silver_universe" =>
          (last_call.raised <=> Glob(bronze_universe) = {})
    /\ "silver_price_daily" \in tables => silver_price_daily # EmptyBag
    /\ "silver_universe" \in tables => silver_universe # EmptyBag

\* C5's case: build_silver_price_daily has just raised over an empty raw
\* price store, after build_silver_universe had built its table.
C5_Witness ==
    /\ Glob(bronze_prices) = {}
    /\ last_call = CallResult("build_silver_price_daily", TRUE, FALSE)
    /\ "silver_universe" \in tables

\* ============================================================ signal engine
\* SQL NULL / pandas NaN in a nullable cell: a cell is Null or Some(value).
Null == <<>>

Some(v) == <<v>>

\* Numbers the engine computes as floats are kept in units of 1/Scale,
\* divisions truncated toward zero.
FDiv(a, b) == IF a >= 0 THEN a \div b ELSE -((-a) \div b)

Abs(x) == IF x >= 0 THEN x ELSE -x

Min2(a, b) == IF a <= b THEN a ELSE b

RECURSIVE SqrtBetween(_, _, _)
\* The integer square root of x, searched between lo and hi.
SqrtBetween(x, lo, hi) ==
    IF lo >= hi THEN lo
    ELSE LET mid == (lo + hi + 1) \div 2
         IN  IF mid * mid <= x THEN SqrtBetween(x, mid, hi) ELSE SqrtBetween(x, lo, mid - 1)

\* Scale times the square root of x, rounded down.
ScaledSqrt(x) ==
    LET r == SqrtBetween(x, 0, x)
    IN  SqrtBetween(x * Scale * Scale, r * Scale, (r + 1) * Scale)

RECURSIVE SumOver(_, _)
\* The sum of f[i] over the indices I.
SumOver(f, I) ==
    IF I = {} THEN 0
    ELSE LET i == CHOOSE j \in I : TRUE IN f[i] + SumOver(f, I \ {i})

\* Config defaults (config_loader.py) and the literals of the query.
min_abs_ret_z == 2
min_rvol == 2
Sma200Preceding == 199
Win60Preceding == 59
Win252Preceding == 251
ZClip == 4
RvolClip == 5
WeightZ == 5
WeightRvol == 3
WeightFlags == 2

\* The copies of a symbol's rows the join "silver_price_daily p JOIN
\* silver_universe u ON p.symbol = u.symbol WHERE u.is_active" makes: one per
\* active universe row of the symbol.
UniverseCopies(s) ==
    SumOver([u \in BagToSet(silver_universe) |->
                 IF u.symbol = s /\ u.is_active THEN CopiesIn(u, silver_universe) ELSE 0],
            BagToSet(silver_universe))

RECURSIVE SortByDateDesc(_)
\* The bars B in a list, by date descending.
SortByDateDesc(B) ==
    IF B = {} THEN <<>>
    ELSE LET b == CHOOSE x \in B : \A y \in B : x.date >= y.date
         IN  <<b>> \o SortByDateDesc(B \ {b})

RECURSIVE SortByDate(_)
\* The bars B (of distinct dates) in a list, by date ascending.
SortByDate(B) ==
    IF B = {} THEN <<>>
    ELSE LET b == CHOOSE x \in B : \A y \in B : x.date <= y.date
         IN  <<b>> \o SortByDate(B \ {b})

RECURSIVE Expand(_, _)
\* The list B with each element k times in a row.
Expand(B, k) ==
    IF B = <<>> \/ k = 0 THEN <<>> ELSE [i \in 1..k |-> Head(B)] \o Expand(Tail(B), k)

\* The partition of a symbol in CTE base, ORDER BY date: the join repeats each
\* bar once per universe copy (the copies of a bar tie on date and are alike).
PartitionOf(prices, s) ==
    Expand(SortByDate({b \in BagToSet(prices) : b.symbol = s}), UniverseCopies(s))

\* The partition over the table silver_price_daily.
Partition(s) == PartitionOf(silver_price_daily, s)

\* ROWS BETWEEN lo PRECEDING AND hi PRECEDING (hi = 0: CURRENT ROW) at row j.
Frame(j, lo, hi) == {i \in 1..j : j - lo <= i /\ i <= j - hi}

\* The k-th smallest of the values f[i], i in I.
KthSmallest(f, I, k) ==
    CHOOSE v \in {f[i] : i \in I} :
        /\ Cardinality({i \in I : f[i] < v}) < k
        /\ k <= Cardinality({i \in I : f[i] <= v})

\* Twice MEDIAN(f) over I (the mean of the two middle values when |I| is even).
Median2(f, I) ==
    LET n == Cardinality(I)
    IN  KthSmallest(f, I, (n + 1) \div 2) + KthSmallest(f, I, (n \div 2) + 1)

MaxOver(f, I) == CHOOSE v \in {f[i] : i \in I} : \A i \in I : f[i] <= v

MinOver(f, I) == CHOOSE v \in {f[i] : i \in I} : \A i \in I : v <= f[i]

\* (close > sma_200) at row j of partition P: close against AVG(close) over
\* the frame, compared exactly.
Above200(P, j) ==
    LET F == Frame(j, Sma200Preceding, 0)
        closes == [i \in 1..Len(P) |-> P[i].close]
    IN  P[j].close * Cardinality(F) > SumOver(closes, F)

\* The return with its operands swapped: (close_d2 - close) / close_d2.
ret_1d_swapped(close, close_d2) ==
    IF close_d2 = Null \/ close_d2 = Some(0) THEN Null
    ELSE Some(FDiv((close_d2[1] - close) * Scale, close_d2[1]))

\* (close - close_d2) / NULLIF(close_d2, 0), line 99.
ret_1d(close, close_d2) ==
    IF close_d2 = Null \/ close_d2 = Some(0) THEN Null
    ELSE Some(FDiv((close - close_d2[1]) * Scale, close_d2[1]))

\* A z-score of zero where the standard deviation is zero.
z_ret_1d_zero(close, n, sum, dev) ==
    IF n = 0 THEN Null
    ELSE IF dev = 0 THEN Some(0)
    ELSE Some(FDiv((n * close - sum) * Scale * Scale, ScaledSqrt(dev)))

\* The CASE of lines 120-123 over a window of n rows whose closes sum to sum
\* and have n * n * variance dev: (close - close_60d_mean) / close_60d_std,
\* NULL when the standard deviation is NULL (n = 0) or zero.
z_ret_1d(close, n, sum, dev) ==
    IF n = 0 \/ dev = 0 THEN Null
    ELSE Some(FDiv((n * close - sum) * Scale * Scale, ScaledSqrt(dev)))

\* The CASE of lines 124-127 over a window of n rows with twice the median
\* med2: volume / vol_60d_median, NULL when the median is NULL or zero.
rvol_60(volume, n, med2) ==
    IF n = 0 \/ med2 = 0 THEN Null ELSE Some(FDiv(2 * volume * Scale, med2))

\* The row of CTE returns and of the final SELECT at row j of partition P,
\* without above_200_prev.
QueryRow(P, j) ==
    LET closes == [i \in 1..Len(P) |-> P[i].close]
        sq == [i \in 1..Len(P) |-> P[i].close * P[i].close]
        vols == [i \in 1..Len(P) |-> P[i].volume]
        highs == [i \in 1..Len(P) |-> P[i].high]
        lows == [i \in 1..Len(P) |-> P[i].low]
        W60 == Frame(j, Win60Preceding, 1)
        W252 == Frame(j, Win252Preceding, 1)
        n == Cardinality(W60)
        sum == SumOver(closes, W60)
        \* n * n * variance: zero exactly when STDDEV_POP is zero
        dev == n * SumOver(sq, W60) - sum * sum
        close_d2 == IF j > 1 THEN Some(P[j - 1].close) ELSE Null
        med2 == IF W60 = {} THEN 0 ELSE Median2(vols, W60)
    IN  [symbol |-> P[j].symbol,
         run_date |-> P[j].date,
         close_d1 |-> P[j].close,
         volume_d1 |-> P[j].volume,
         close_d2 |-> close_d2,
         ret_1d |-> ret_1d(P[j].close, close_d2),
         z_ret_1d |-> z_ret_1d(P[j].close, n, sum, dev),
         rvol_60 |-> rvol_60(P[j].volume, n, med2),
         is_52w_high |-> IF W252 = {} THEN Null ELSE Some(P[j].high >= MaxOver(highs, W252)),
         is_52w_low |-> IF W252 = {} THEN Null ELSE Some(P[j].low <= MinOver(lows, W252)),
         above_200_curr |-> Above200(P, j)]

\* The rows of a symbol the WHERE date = run_date keeps: positions in its
\* partition.
RowsOfDate(P, run_date) == {j \in 1..Len(P) : P[j].date = run_date}

\* LAG(close > sma_200) OVER (PARTITION BY symbol ORDER BY date) of the final
\* SELECT: window functions see the rows the WHERE clause kept, so the row
\* before is the previous kept row of the symbol, if any.
Above200Prev(P, j, run_date) ==
    IF j - 1 \in RowsOfDate(P, run_date) THEN Some(Above200(P, j - 1)) ELSE Null

\* One if any flag is set, else zero.
any_flag(flags) == IF \E i \in DOMAIN flags : flags[i] THEN 1 ELSE 0

\* df[event_flags].sum(axis=1), lines 160-168: the number of true flags.
event_flag_count(flags) == Cardinality({i \in DOMAIN flags : flags[i]})

\* The score with the flag count subtracted.
score_minus_flags(z, rvol, count) ==
    WeightZ * (IF z = Null THEN 0 ELSE Min2(Abs(z[1]), ZClip * Scale))
    + WeightRvol * (IF rvol = Null THEN 0 ELSE Min2(rvol[1], RvolClip * Scale))
    - WeightFlags * count * Scale

\* The score without the clips at 4 and 5.
score_unclipped(z, rvol, count) ==
    WeightZ * (IF z = Null THEN 0 ELSE Abs(z[1]))
    + WeightRvol * (IF rvol = Null THEN 0 ELSE rvol[1])
    + WeightFlags * count * Scale

\* Lines 171-175, in units of 1/(10 * Scale):
\* 0.5 * |z|.clip(upper=4).fillna(0) + 0.3 * rvol.clip(upper=5).fillna(0)
\* + 0.2 * event_flag_count.
interestingness_score(z, rvol, count) ==
    WeightZ * (IF z = Null THEN 0 ELSE Min2(Abs(z[1]), ZClip * Scale))
    + WeightRvol * (IF rvol = Null THEN 0 ELSE Min2(rvol[1], RvolClip * Scale))
    + WeightFlags * count * Scale

\* The extremum flag whatever the volume is.
flag_52w_unconditioned(is_52w, flag_high_rvol) == is_52w = Some(TRUE)

\* Lines 156-157: df["is_52w_high"] & df["flag_high_rvol"], a null extremum
\* cell counting as False.
flag_52w(is_52w, flag_high_rvol) == is_52w = Some(TRUE) /\ flag_high_rvol

\* The flags, the flag count and the score pandas adds to a query row
\* (lines 145-175); a comparison with NaN or None is False.
Scored(q, above_200_prev) ==
    LET cross_up == above_200_prev = Some(FALSE) /\ q.above_200_curr
        cross_down == above_200_prev = Some(TRUE) /\ ~q.above_200_curr
        large_move == q.z_ret_1d # Null /\ Abs(q.z_ret_1d[1]) >= min_abs_ret_z * Scale
        high_rvol == q.rvol_60 # Null /\ q.rvol_60[1] >= min_rvol * Scale
        f52_high == flag_52w(q.is_52w_high, high_rvol)
        f52_low == flag_52w(q.is_52w_low, high_rvol)
        flags == <<large_move, high_rvol, f52_high, f52_low, cross_up, cross_down>>
        count == event_flag_count(flags)
    IN  [symbol |-> q.symbol, run_date |-> q.run_date,
         close_d1 |-> q.close_d1, volume_d1 |-> q.volume_d1, close_d2 |-> q.close_d2,
         ret_1d |-> q.ret_1d, z_ret_1d |-> q.z_ret_1d, rvol_60 |-> q.rvol_60,
         is_52w_high |-> q.is_52w_high, is_52w_low |-> q.is_52w_low,
         above_200_prev |-> above_200_prev, above_200_curr |-> q.above_200_curr,
         flag_200d_cross_up |-> cross_up, flag_200d_cross_down |-> cross_down,
         flag_large_move |-> large_move, flag_high_rvol |-> high_rvol,
         flag_52w_high |-> f52_high, flag_52w_low |-> f52_low,
         event_flag_count |-> count,
         interestingness_score |-> interestingness_score(q.z_ret_1d, q.rvol_60, count)]

\* The symbols that have a row in CTE base, for a price table.
JoinedSymbolsOf(prices) ==
    {s \in {b.symbol : b \in BagToSet(prices)} : UniverseCopies(s) > 0}

\* The symbols that have a row in CTE base.
JoinedSymbols == JoinedSymbolsOf(silver_price_daily)

\* The rows of a symbol in the frame df after line 175, each with its
\* position j in the symbol's partition.
PartitionRows(P, s, run_date) ==
    {[pos |-> <<s, j>>, row |-> Scored(QueryRow(P, j), Above200Prev(P, j, run_date))] :
        j \in RowsOfDate(P, run_date)}

\* The rows of a symbol in the frame df after line 175.
SymbolRows(s, run_date) == PartitionRows(Partition(s), s, run_date)

\* The frame df after line 175, for a price table.
FrameRowsOf(prices, run_date) ==
    UNION {PartitionRows(PartitionOf(prices, s), s, run_date) : s \in JoinedSymbolsOf(prices)}

\* The frame df after line 175.
FrameRows(run_date) == FrameRowsOf(silver_price_daily, run_date)

RECURSIVE SortedOrders(_)
\* df.sort_values("interestingness_score", ascending=False): the orders of the
\* rows R with non-increasing score (rows of equal score in any order).
SortedOrders(R) ==
    IF R = {} THEN {<<>>}
    ELSE UNION {{<<x>> \o rest : rest \in SortedOrders(R \ {x})} :
                   x \in {y \in R : \A z \in R : z.row.interestingness_score
                                                    <= y.row.interestingness_score}}

\* No row is dropped.
KeepAll(df, seen) == df

RECURSIVE drop_duplicates(_, _)
\* df.drop_duplicates(subset=["symbol", "run_date"], keep="first"): the rows
\* of the list whose (symbol, run_date) is not in seen and not earlier in it.
drop_duplicates(df, seen) ==
    IF df = <<>> THEN <<>>
    ELSE LET key == <<Head(df).row.symbol, Head(df).row.run_date>>
         IN  IF key \in seen THEN drop_duplicates(Tail(df), seen)
             ELSE <<Head(df)>> \o drop_duplicates(Tail(df), seen \cup {key})

\* SELECT max(date) FROM silver_price_daily; NoDate for NULL.
MaxDateOfTable ==
    IF BagToSet(silver_price_daily) = {} THEN NoDate
    ELSE Max({b.date : b \in BagToSet(silver_price_daily)})

\* The latest date of the table whatever cfg.run_date is.
LatestDateOnly(cfg_run_date) ==
    IF "silver_price_daily" \notin tables THEN NoDate ELSE MaxDateOfTable

\* resolve_run_date(cfg, con): the date, or NoDate when it raises (the table
\* is missing or empty).
resolve_run_date(cfg_run_date) ==
    IF cfg_run_date # NoDate THEN cfg_run_date
    ELSE IF "silver_price_daily" \notin tables THEN NoDate
    ELSE MaxDateOfTable

\* Lines 41-42: the date compute_signals evaluates.
EvaluatedDate(cfg_run_date, arg) ==
    IF arg = NoDate THEN resolve_run_date(cfg_run_date) ELSE arg

\* The test of line 141 left out.
NeverEmpty(R) == FALSE

\* "if df.empty"
df_empty(R) == R = {}

\* A compute_signals call: its arguments, how far it is, the date it
\* evaluates, its frame, and the connection of line 39 ("open" or "closed").
SignalsCall(status, cfg_run_date, arg, run_date, df, con) ==
    [status |-> status, cfg_run_date |-> cfg_run_date, arg |-> arg,
     run_date |-> run_date, df |-> df, con |-> con]

\* compute_signals(cfg, run_date): one call, from the connect to the return
\* or the raise.
compute_signals ==
    /\ sig = NoSignals
    /\ \E cfg_run_date \in {NoDate} \cup SigDates, arg \in {NoDate} \cup SigDates :
          LET run_date == EvaluatedDate(cfg_run_date, arg)
              R == FrameRows(run_date)
          IN  IF \/ run_date = NoDate
                 \/ ~({"silver_price_daily", "silver_universe"} \subseteq tables)
              THEN \* resolve_run_date (line 42) or the query (line 136) raises
                   sig' = SignalsCall("raised", cfg_run_date, arg, run_date, <<>>, "open")
              ELSE IF df_empty(R)
              THEN \* lines 141-143: con.close(), then the raise
                   sig' = SignalsCall("raised", cfg_run_date, arg, run_date, <<>>, "closed")
              ELSE \E order \in SortedOrders(R) :
                      LET kept == drop_duplicates(order, {})
                      IN  sig' = SignalsCall("returned", cfg_run_date, arg, run_date,
                                             [i \in 1..Len(kept) |-> kept[i].row], "closed")
    /\ UNCHANGED <<pipeVars, poolVars, rlVars, fetched>>

\* The caller is done with what compute_signals returned or raised.
signals_consumed ==
    /\ sig # NoSignals
    /\ sig' = NoSignals
    /\ UNCHANGED <<pipeVars, poolVars, rlVars, fetched>>

\* A curated price table: at most one bar per (symbol, date), as
\* build_silver_price_daily leaves it.
SigBar(s, d, v) ==
    [symbol |-> s, date |-> d, open |-> v, high |-> v + 1, low |-> v, close |-> v,
     adj_close |-> v, volume |-> v]

\* The curated stores compute_signals is run on: no table yet, or the tables
\* the builds leave: one universe row per snapshot that lists the symbol, and
\* per symbol bars of its first n trading dates.
InitSignals ==
    /\ today = MaxDay
    /\ bronze_universe = [d \in Days |-> {}]
    /\ bronze_prices = [d \in Days |-> {}]
    /\ last_call = CallResult("none", FALSE, FALSE)
    /\ InitPool
    /\ fetched = NoFetch
    /\ sig = NoSignals
    /\ InitRL
    /\ \/ /\ tables = {}
          /\ silver_universe = EmptyBag
          /\ silver_price_daily = EmptyBag
       \/ /\ tables = {"silver_universe", "silver_price_daily"}
          /\ \E copies \in [Symbols -> 0..MaxDay] :
                /\ \E s \in Symbols : copies[s] > 0
                /\ silver_universe =
                      [u \in {SilverUniverseRow(Constituent(s)) :
                                  s \in {t \in Symbols : copies[t] > 0}} |-> copies[u.symbol]]
          /\ \E lv \in [Symbols -> UNION {[1..n -> SigLevels] : n \in 0..MaxSigDate}] :
                /\ \E s \in Symbols : lv[s] # <<>>
                /\ silver_price_daily =
                      SetToBag(UNION {{SigBar(s, d, lv[s][d]) : d \in DOMAIN lv[s]} : s \in Symbols})

NextSignals ==
    \/ compute_signals
    \/ signals_consumed

SpecSignals == InitSignals /\ [][NextSignals]_vars

\* ---------------------------------------------------- signal engine: claims
\* C6: a result compute_signals returns holds only rows of the evaluated
\* date, exactly one row for each active universe symbol with a curated bar on
\* that date and no row of another symbol, in non-increasing order of
\* interestingness_score.
C6_OneRowPerActiveSymbolSorted ==
    sig.status = "returned" =>
        LET active == {u.symbol : u \in {v \in BagToSet(silver_universe) : v.is_active}}
            expected == {b.symbol : b \in {c \in BagToSet(silver_price_daily) :
                                               c.date = sig.run_date /\ c.symbol \in active}}
        IN  /\ \A i \in DOMAIN sig.df : sig.df[i].run_date = sig.run_date
            /\ {sig.df[i].symbol : i \in DOMAIN sig.df} = expected
            /\ \A i, j \in DOMAIN sig.df : sig.df[i].symbol = sig.df[j].symbol => i = j
            /\ \A i, j \in DOMAIN sig.df :
                  i < j => sig.df[i].interestingness_score >= sig.df[j].interestingness_score

\* C6's case: a result of two rows of different scores, for a universe that
\* lists a symbol twice.
C6_Witness ==
    /\ sig.status = "returned"
    /\ Len(sig.df) = 2
    /\ sig.df[1].interestingness_score > sig.df[2].interestingness_score
    /\ \E u \in BagToSet(silver_universe) : CopiesIn(u, silver_universe) > 1

\* C7: compute_signals never returns an empty result; it raises when no active
\* symbol has a bar on the resolved date, and it raises when no run_date is
\* passed or configured and silver_price_daily has no row.
C7_NeverEmptyResult ==
    LET active == {u.symbol : u \in {v \in BagToSet(silver_universe) : v.is_active}}
        bars == {b \in BagToSet(silver_price_daily) :
                     b.date = sig.run_date /\ b.symbol \in active}
    IN  /\ sig.status = "returned" => sig.df # <<>>
        /\ (sig.status # "none" /\ bars = {}) => sig.status = "raised"
        /\ (sig.status # "none" /\ sig.arg = NoDate /\ sig.cfg_run_date = NoDate
              /\ BagToSet(silver_price_daily) = {}) => sig.status = "raised"

\* C7's case: the call raised for a date that was resolved, over tables that
\* hold bars of active symbols on other dates only.
C7_Witness ==
    /\ sig.status = "raised"
    /\ sig.run_date # NoDate
    /\ {"silver_price_daily", "silver_universe"} \subseteq tables
    /\ \E b \in BagToSet(silver_price_daily) :
          \E u \in BagToSet(silver_universe) : u.symbol = b.symbol
    /\ \A b \in BagToSet(silver_price_daily) : b.date # sig.run_date

\* C8 as stated: the date evaluated is cfg.run_date whenever it is set, and
\* otherwise the maximum date of silver_price_daily.
C8_ConfiguredDateFirst ==
    (sig.status = "returned") =>
        LET expected == IF sig.cfg_run_date # NoDate THEN sig.cfg_run_date
                        ELSE Max({b.date : b \in BagToSet(silver_price_daily)})
        IN  /\ sig.run_date = expected
            /\ \A i \in DOMAIN sig.df : sig.df[i].run_date = expected

\* C8 amended: the date evaluated is the run_date argument when one is passed;
\* otherwise cfg.run_date when it is set; otherwise the maximum date of
\* silver_price_daily.
C8_ArgumentThenConfiguredDate ==
    (sig.status = "returned") =>
        LET expected == IF sig.arg # NoDate THEN sig.arg
                        ELSE IF sig.cfg_run_date # NoDate THEN sig.cfg_run_date
                        ELSE Max({b.date : b \in BagToSet(silver_price_daily)})
        IN  /\ sig.run_date = expected
            /\ \A i \in DOMAIN sig.df : sig.df[i].run_date = expected

\* C8's case: a result for a call with cfg.run_date set and a different
\* run_date argument, neither the latest date of the table.
C8_Witness ==
    /\ sig.status = "returned"
    /\ sig.arg # NoDate
    /\ sig.cfg_run_date # NoDate
    /\ sig.arg # sig.cfg_run_date
    /\ \E b \in BagToSet(silver_price_daily) : b.date > sig.arg /\ b.date > sig.cfg_run_date

\* C11: for an explicit run_date the outcome depends only on the bars dated
\* on or before it: what the call returned is a result compute_signals can
\* return over the table cut after run_date, and it raised exactly when the
\* cut table yields no row. Tables that agree up to run_date have the same cut.
C11_NoLookAhead ==
    (sig.status # "none" /\ sig.arg # NoDate) =>
        LET past == SetToBag({b \in BagToSet(silver_price_daily) : b.date <= sig.run_date})
            R == FrameRowsOf(past, sig.run_date)
            results == {[i \in 1..Len(drop_duplicates(o, {})) |-> drop_duplicates(o, {})[i].row] :
                           o \in SortedOrders(R)}
        IN  /\ sig.run_date = sig.arg
            /\ sig.status = "raised" <=> R = {}
            /\ sig.status = "returned" => sig.df \in results

\* C11's case: a result for an explicit run_date, of a symbol that has a
\* later bar with another close.
C11_Witness ==
    /\ sig.status = "returned"
    /\ sig.arg # NoDate
    /\ \E b, c \in BagToSet(silver_price_daily) :
          /\ b.symbol = sig.df[1].symbol
          /\ c.symbol = b.symbol
          /\ b.date = sig.run_date
          /\ c.date > sig.run_date
          /\ c.close # b.close

\* C12: in a result, a row whose trailing window of closes is empty or
\* constant (standard deviation undefined or zero) has a null z_ret_1d, a row
\* whose trailing window of volumes is empty or more than half zeros (median
\* undefined or zero) has a null rvol_60; a null z_ret_1d goes with a false
\* flag_large_move, a null rvol_60 with a false flag_high_rvol; and a call whose
\* query yields rows does not raise.
C12_NullWhenNoDispersion ==
    (sig.status # "none" /\ sig.run_date # NoDate
        /\ {"silver_price_daily", "silver_universe"} \subseteq tables) =>
        LET R == FrameRows(sig.run_date)
            window(r) == Frame(r.pos[2], Win60Preceding, 1)
            bars(r) == Partition(r.pos[1])
            flat(r) == \A i, k \in window(r) : bars(r)[i].close = bars(r)[k].close
            zeros(r) == {i \in window(r) : bars(r)[i].volume = 0}
            idle(r) == window(r) = {} \/ 2 * Cardinality(zeros(r)) > Cardinality(window(r))
        IN  /\ R # {} => sig.status = "returned"
            /\ \A i \in DOMAIN sig.df : \E r \in R : r.row = sig.df[i]
            /\ \A r \in R :
                  /\ flat(r) => r.row.z_ret_1d = Null
                  /\ idle(r) => r.row.rvol_60 = Null
                  /\ r.row.z_ret_1d = Null => ~r.row.flag_large_move
                  /\ r.row.rvol_60 = Null => ~r.row.flag_high_rvol

\* C12's case: a result with a row that has earlier bars, all of close and
\* volume zero, and with it a null z_ret_1d and a null rvol_60.
C12_Witness ==
    /\ sig.status = "returned"
    /\ \E i \in DOMAIN sig.df :
          /\ sig.df[i].close_d2 = Some(0)
          /\ sig.df[i].z_ret_1d = Null
          /\ sig.df[i].rvol_60 = Null
          /\ ~sig.df[i].flag_large_move
          /\ ~sig.df[i].flag_high_rvol

BarsOf(s) == SortByDate({b \in BagToSet(silver_price_daily) : b.symbol = s})

\* The position of the bar of date d in a chronological list of bars.
PositionOf(P, d) == CHOOSE x \in 1..Len(P) : P[x].date = d

\* C21: in a returned row, flag_200d_cross_up is true exactly when
\* (close > sma_200) is false on the symbol's previous bar and true on the
\* run_date bar, and flag_200d_cross_down exactly for the opposite transition,
\* sma_200 being the mean close of the up to 200 bars ending at the bar.
C21_CrossFlagsFollowTransition ==
    sig.status = "returned" =>
        \A i \in DOMAIN sig.df :
            LET row == sig.df[i]
                P == BarsOf(row.symbol)
                j == PositionOf(P, row.run_date)
            IN  /\ row.flag_200d_cross_up = (j > 1 /\ ~Above200(P, j - 1) /\ Above200(P, j))
                /\ row.flag_200d_cross_down = (j > 1 /\ Above200(P, j - 1) /\ ~Above200(P, j))

\* C22: in a returned row, ret_1d is (close[t] - close[t-1]) / close[t-1]
\* with close[t-1] the close of the symbol's previous bar in
\* silver_price_daily, and null when there is no previous bar or that close
\* is zero.
C22_ReturnOverPreviousBar ==
    sig.status = "returned" =>
        \A i \in DOMAIN sig.df :
            LET row == sig.df[i]
                P == BarsOf(row.symbol)
                j == PositionOf(P, row.run_date)
            IN  row.ret_1d =
                    (IF j = 1 \/ P[j - 1].close = 0 THEN Null
                     ELSE Some(FDiv((P[j].close - P[j - 1].close) * Scale, P[j - 1].close)))

\* C25: when compute_signals has returned or raised, the connection it
\* opened is closed.
C25_ConnectionClosedOnEveryPath ==
    sig.status \in {"returned", "raised"} => sig.con = "closed"

\* The row sets a compute_signals call can return for a date over the
\* present curated store, one for each order the sort can leave the frame in.
PossibleResults(run_date) ==
    {{kept[i].row : i \in DOMAIN kept} :
        kept \in {drop_duplicates(order, {}) : order \in SortedOrders(FrameRows(run_date))}}

SignalValues(row) ==
    <<row.ret_1d, row.z_ret_1d, row.rvol_60, row.is_52w_high, row.is_52w_low,
      row.flag_52w_high, row.flag_52w_low, row.flag_200d_cross_up,
      row.flag_200d_cross_down, row.interestingness_score>>

\* C28: however many rows of silver_universe list a symbol, the signal values
\* of its returned row are those computed from the symbol's bars of
\* silver_price_daily alone, each bar once in its partition.
C28_IndependentOfSnapshotCount ==
    sig.status = "returned" =>
        \A i \in DOMAIN sig.df :
            LET row == sig.df[i]
                alone == PartitionRows(BarsOf(row.symbol), row.symbol, sig.run_date)
            IN  \E r \in alone : SignalValues(row) = SignalValues(r.row)

\* ------------------------------------------------- trailing windows alone
\* Histories long enough to fill the 60-day windows (up to MaxBars bars) and
\* the 252-day windows (LongBars bars).
HistoryLengths == (Win60Preceding..MaxBars) \cup {LongBars}

\* The trading dates a history of n bars may have its one outlying bar on
\* (0: none): any date of a short history, the first dates of a long one.
SpikeDays(n) == IF n <= MaxBars THEN 0..n ELSE 0..(n - Win252Preceding)

\* The curated tables of one symbol listed once, with a bar on each of its
\* first n trading dates, all alike but at most one.
InitWindows ==
    /\ today = MaxDay
    /\ bronze_universe = [d \in Days |-> {}]
    /\ bronze_prices = [d \in Days |-> {}]
    /\ last_call = CallResult("none", FALSE, FALSE)
    /\ InitPool
    /\ fetched = NoFetch
    /\ sig = NoSignals
    /\ InitRL
    /\ tables = {"silver_universe", "silver_price_daily"}
    /\ silver_universe = SetToBag({SilverUniverseRow(Constituent("AAA"))})
    /\ \E n \in HistoryLengths : \E k \in SpikeDays(n) :
          silver_price_daily =
              SetToBag({SigBar("AAA", d, IF d = k THEN 2 ELSE 1) : d \in 1..n})

NextWindows ==
    \/ compute_signals
    \/ signals_consumed

SpecWindows == InitWindows /\ [][NextWindows]_vars

\* C20: for a symbol listed once, z_ret_1d and rvol_60 of a returned row are
\* computed over exactly the 60 bars immediately preceding the run_date bar,
\* and is_52w_high and is_52w_low over exactly the 252 bars immediately
\* preceding it (all earlier bars when there are fewer), never over the
\* run_date bar itself.
C20_WindowsOf60And252 ==
    sig.status = "returned" =>
        \A i \in DOMAIN sig.df :
            LET row == sig.df[i]
                P == SortByDate({b \in BagToSet(silver_price_daily) : b.symbol = row.symbol})
                j == CHOOSE x \in 1..Len(P) : P[x].date = row.run_date
                closes == [x \in 1..Len(P) |-> P[x].close]
                sq == [x \in 1..Len(P) |-> P[x].close * P[x].close]
                vols == [x \in 1..Len(P) |-> P[x].volume]
                highs == [x \in 1..Len(P) |-> P[x].high]
                lows == [x \in 1..Len(P) |-> P[x].low]
                W60 == {x \in 1..(j - 1) : j - 60 <= x}
                W252 == {x \in 1..(j - 1) : j - 252 <= x}
                n == Cardinality(W60)
                sum == SumOver(closes, W60)
                dev == n * SumOver(sq, W60) - sum * sum
            IN  /\ row.z_ret_1d = z_ret_1d(P[j].close, n, sum, dev)
                /\ row.rvol_60 = rvol_60(P[j].volume, n, IF W60 = {} THEN 0 ELSE Median2(vols, W60))
                /\ row.is_52w_high =
                      (IF W252 = {} THEN Null ELSE Some(P[j].high >= MaxOver(highs, W252)))
                /\ row.is_52w_low =
                      (IF W252 = {} THEN Null ELSE Some(P[j].low <= MinOver(lows, W252)))

\* ------------------------------------------------- flags and score alone
\* Lines 145-179 on their own: the frame the query returned is drawn, two
\* symbols with one row each, and the flags, the count and the score are
\* added to it, then the sort and the de-duplication.
\* A query row with the given nullable cells; the cells the flags and the
\* score do not read are those of a flat series.
QueryCells(s, z, rvol, high, low, curr) ==
    [symbol |-> s, run_date |-> 1, close_d1 |-> 1, volume_d1 |-> 1, close_d2 |-> Some(1),
     ret_1d |-> Some(0), z_ret_1d |-> z, rvol_60 |-> rvol, is_52w_high |-> high,
     is_52w_low |-> low, above_200_curr |-> curr]

\* z_ret_1d cells: null, a large fall, a small rise, a rise beyond the clip.
ZCells == {Null, Some(0 - 3 * Scale), Some(Scale), Some(5 * Scale)}

\* rvol_60 cells: null, the usual volume, a volume beyond the clip.
RvolCells == {Null, Some(Scale), Some(6 * Scale)}

\* The rows the query can return for a symbol: without an earlier bar every
\* window cell is null, with one the 52-week cells are not.
QueryRows(s) ==
    {[q |-> QueryCells(s, Null, Null, Null, Null, curr), prev |-> prev] :
        curr \in BOOLEAN, prev \in {Null, Some(TRUE), Some(FALSE)}}
    \cup {[q |-> QueryCells(s, z, rvol, Some(c[1]), Some(c[2]), c[3]), prev |-> prev] :
             z \in ZCells, rvol \in RvolCells, c \in BOOLEAN \X BOOLEAN \X BOOLEAN,
             prev \in {Null, Some(TRUE), Some(FALSE)}}

InitScore ==
    /\ InitPipe
    /\ InitPool
    /\ fetched = NoFetch
    /\ InitRL
    /\ \E a \in QueryRows("AAA"), b \in QueryRows("BBB") :
          sig = SignalsCall("queried", NoDate, 1, 1, <<a, b>>, "open")

\* Lines 145-179 of compute_signals on the frame the query returned.
score_frame ==
    /\ sig.status = "queried"
    /\ LET R == {[pos |-> <<sig.df[i].q.symbol, 1>>,
                  row |-> Scored(sig.df[i].q, sig.df[i].prev)] : i \in DOMAIN sig.df}
       IN  \E order \in SortedOrders(R) :
              LET kept == drop_duplicates(order, {})
              IN  sig' = SignalsCall("returned", sig.cfg_run_date, sig.arg, sig.run_date,
                                     [i \in 1..Len(kept) |-> kept[i].row], "closed")
    /\ UNCHANGED <<pipeVars, poolVars, rlVars, fetched>>

NextScore == score_frame

SpecScore == InitScore /\ [][NextScore]_vars

\* C13: in every row of a result, event_flag_count is the number of true
\* values among the six flags.
C13_CountOfTrueFlags ==
    sig.status = "returned" =>
        \A i \in DOMAIN sig.df :
            sig.df[i].event_flag_count =
                Cardinality({f \in {"flag_large_move", "flag_high_rvol", "flag_52w_high",
                                    "flag_52w_low", "flag_200d_cross_up",
                                    "flag_200d_cross_down"} : sig.df[i][f]})

\* C13's case: a result with a row of four true flags, a cross flag among
\* them, and a row of none.
C13_Witness ==
    /\ sig.status = "returned"
    /\ \E i, j \in DOMAIN sig.df :
          /\ sig.df[i].event_flag_count = 4
          /\ sig.df[i].flag_200d_cross_up
          /\ sig.df[i].flag_52w_high
          /\ sig.df[j].event_flag_count = 0

\* C14: in every row of a result interestingness_score is >= 0, and of two
\* rows with equal z_ret_1d and equal rvol_60 the one with the greater
\* event_flag_count does not have the smaller score.
C14_ScoreNonNegativeMonotone ==
    sig.status = "returned" =>
        /\ \A i \in DOMAIN sig.df : sig.df[i].interestingness_score >= 0
        /\ \A i, j \in DOMAIN sig.df :
              (/\ sig.df[i].z_ret_1d = sig.df[j].z_ret_1d
               /\ sig.df[i].rvol_60 = sig.df[j].rvol_60
               /\ sig.df[i].event_flag_count > sig.df[j].event_flag_count)
              => sig.df[i].interestingness_score >= sig.df[j].interestingness_score

\* C14's case: a result of two rows with the same negative z_ret_1d and the
\* same rvol_60, one with more flags than the other and the greater score.
C14_Witness ==
    /\ sig.status = "returned"
    /\ Len(sig.df) = 2
    /\ sig.df[1].z_ret_1d = sig.df[2].z_ret_1d
    /\ sig.df[1].z_ret_1d # Null
    /\ sig.df[1].z_ret_1d[1] < 0
    /\ sig.df[1].rvol_60 = sig.df[2].rvol_60
    /\ sig.df[1].event_flag_count > sig.df[2].event_flag_count
    /\ sig.df[1].interestingness_score > sig.df[2].interestingness_score

\* C23: in every returned row, flag_52w_high is true exactly when is_52w_high
\* and flag_high_rvol are true, flag_52w_low exactly when is_52w_low and
\* flag_high_rvol are true, and flag_high_rvol is rvol_60 >= min_rvol.
C23_ExtremumFlagsNeedVolume ==
    sig.status = "returned" =>
        \A i \in DOMAIN sig.df :
            LET row == sig.df[i]
            IN  /\ row.flag_high_rvol =
                      (row.rvol_60 # Null /\ row.rvol_60[1] >= min_rvol * Scale)
                /\ row.flag_52w_high = (row.is_52w_high = Some(TRUE) /\ row.flag_high_rvol)
                /\ row.flag_52w_low = (row.is_52w_low = Some(TRUE) /\ row.flag_high_rvol)
                /\ (row.flag_52w_high \/ row.flag_52w_low) => row.flag_high_rvol

\* C23's case: a result with a row at its 52-week high on high volume, flagged,
\* and a row at its 52-week high on the usual volume, not flagged.
C23_Witness ==
    /\ sig.status = "returned"
    /\ \E i, j \in DOMAIN sig.df :
          /\ sig.df[i].is_52w_high = Some(TRUE)
          /\ sig.df[i].flag_high_rvol
          /\ sig.df[i].flag_52w_high
          /\ sig.df[j].is_52w_high = Some(TRUE)
          /\ sig.df[j].rvol_60 = Some(Scale)
          /\ ~sig.df[j].flag_high_rvol
          /\ ~sig.df[j].flag_52w_high

\* C24: in every returned row, interestingness_score is
\* 0.5 * min(|z_ret_1d|, 4) + 0.3 * min(rvol_60, 5) + 0.2 * event_flag_count,
\* a null z_ret_1d or rvol_60 contributing zero (ten times the score, in
\* units of 1/Scale, on both sides).
C24_ScoreFormula ==
    sig.status = "returned" =>
        \A i \in DOMAIN sig.df :
            LET row == sig.df[i]
                absz == IF row.z_ret_1d = Null THEN 0
                        ELSE IF row.z_ret_1d[1] < 0 THEN 0 - row.z_ret_1d[1]
                        ELSE row.z_ret_1d[1]
                zterm == IF absz > 4 * Scale THEN 4 * Scale ELSE absz
                rvol == IF row.rvol_60 = Null THEN 0 ELSE row.rvol_60[1]
                rterm == IF rvol > 5 * Scale THEN 5 * Scale ELSE rvol
            IN  row.interestingness_score =
                    5 * zterm + 3 * rterm + 2 * row.event_flag_count * Scale

\* C24's case: a result with a row whose z_ret_1d and rvol_60 are both beyond
\* their clips, scored 0.5 * 4 + 0.3 * 5 + 0.2 * 2, and a row whose z_ret_1d
\* is null.
C24_Witness ==
    /\ sig.status = "returned"
    /\ \E i, j \in DOMAIN sig.df :
          /\ sig.df[i].z_ret_1d = Some(5 * Scale)
          /\ sig.df[i].rvol_60 = Some(6 * Scale)
          /\ sig.df[i].event_flag_count = 2
          /\ sig.df[i].interestingness_score = 39 * Scale
          /\ sig.df[j].z_ret_1d = Null
          /\ sig.df[j].rvol_60 = Some(Scale)
          /\ sig.df[j].interestingness_score = 3 * Scale

\* ============================================================= rate limiter
\* FMPClient._get and RateLimiter.acquire, one statement a step; a thread
\* switch can fall between any two steps. limit and period are the instance's.
limit == RLLimit

period == RLPeriod

\* self.api_key
api_key == "KEY"

\* time.time() moves on.
Tick ==
    /\ rl_clock < MaxTime
    /\ rl_clock' = rl_clock + 1
    /\ UNCHANGED <<rl_calls, rl_thread, rl_started, rl_admitted, rl_raised, get_thread,
                   pipeVars, poolVars, sig, fetched>>

\* A caller invokes one of the public methods, which calls _get (lines 130-164).
get_call(t) ==
    /\ get_thread[t].pc = "idle"
    /\ rl_started + Cardinality({u \in Threads : get_thread[u].pc = "acquire"}) < MaxCalls
    /\ \E r \in Requests :
          get_thread' = [get_thread EXCEPT
                            ![t] = GetLocal("acquire", r, r.params, Dict({}), 0, FALSE, 0,
                                            NoGet.sent, "none")]
    /\ UNCHANGED <<rl_clock, rl_calls, rl_thread, rl_started, rl_admitted, rl_raised,
                   pipeVars, poolVars, sig, fetched>>

\* The thread's locals in acquire change and nothing else does.
Step(t, loc) ==
    /\ rl_thread' = [rl_thread EXCEPT ![t] = loc]
    /\ UNCHANGED <<rl_clock, rl_calls, rl_started, rl_admitted, rl_raised, get_thread,
                   pipeVars, poolVars, sig, fetched>>

\* The call ends in IndexError: an indexed or popped deque was empty. The
\* exception leaves acquire and _get.
IndexError(t) ==
    /\ rl_thread' = [rl_thread EXCEPT ![t].pc = "idle"]
    /\ rl_raised' = TRUE
    /\ get_thread' = [get_thread EXCEPT ![t].pc = "idle", ![t].outcome = "raised"]
    /\ UNCHANGED <<rl_clock, rl_calls, rl_started, rl_admitted, pipeVars, poolVars, sig, fetched>>

\* Line 111 calls acquire; lines 34-37: now = time.time();
\* window_start = now - self.period
acquire_enter(t) ==
    /\ get_thread[t].pc = "acquire"
    /\ rl_thread[t].pc = "idle"
    /\ rl_started < MaxCalls
    /\ rl_started' = rl_started + 1
    /\ rl_thread' = [rl_thread EXCEPT
                        ![t] = Local("drop_test", 1, rl_clock, rl_clock - period, 0)]
    /\ get_thread' = [get_thread EXCEPT ![t].pc = "in_acquire",
                                        ![t].acquires = get_thread[t].acquires + 1]
    /\ UNCHANGED <<rl_clock, rl_calls, rl_admitted, rl_raised, pipeVars, poolVars, sig, fetched>>

\* After a drop loop: the limit test (line 41) after the first, the append
\* (line 55) after the second.
AfterDrop(loc) == [loc EXCEPT !.pc = IF loc.phase = 1 THEN "limit_test" ELSE "append"]

\* "while self._calls ...": the deque's truth value (lines 38, 51).
drop_test(t) ==
    /\ rl_thread[t].pc = "drop_test"
    /\ Step(t, IF rl_calls = <<>> THEN AfterDrop(rl_thread[t])
               ELSE [rl_thread[t] EXCEPT !.pc = "drop_peek"])

\* "... and self._calls[0] <= window_start" (lines 38, 51).
drop_peek(t) ==
    /\ rl_thread[t].pc = "drop_peek"
    /\ IF rl_calls = <<>> THEN IndexError(t)
       ELSE Step(t, IF rl_calls[1] <= rl_thread[t].window_start
                    THEN [rl_thread[t] EXCEPT !.pc = "drop_pop"]
                    ELSE AfterDrop(rl_thread[t]))

\* self._calls.popleft() (lines 39, 52).
drop_pop(t) ==
    /\ rl_thread[t].pc = "drop_pop"
    /\ IF rl_calls = <<>> THEN IndexError(t)
       ELSE /\ rl_calls' = Tail(rl_calls)
            /\ rl_thread' = [rl_thread EXCEPT ![t].pc = "drop_test"]
            /\ UNCHANGED <<rl_clock, rl_started, rl_admitted, rl_raised, get_thread,
                           pipeVars, poolVars, sig, fetched>>

\* "if len(self._calls) >= self.limit" (line 41).
limit_test(t) ==
    /\ rl_thread[t].pc = "limit_test"
    /\ Step(t, [rl_thread[t] EXCEPT !.pc = IF Len(rl_calls) >= limit THEN "earliest"
                                           ELSE "append"])

\* Lines 43-46: earliest = self._calls[0]; sleep_for = earliest + period - now;
\* time.sleep(sleep_for) begins if sleep_for > 0.
earliest(t) ==
    /\ rl_thread[t].pc = "earliest"
    /\ IF rl_calls = <<>> THEN IndexError(t)
       ELSE LET sleep_for == rl_calls[1] + period - rl_thread[t].now
            IN  Step(t, IF sleep_for > 0
                        THEN [rl_thread[t] EXCEPT !.pc = "sleep", !.wake = rl_clock + sleep_for]
                        ELSE [rl_thread[t] EXCEPT !.pc = "renow"])

\* time.sleep returns, no sooner than asked.
wake_up(t) ==
    /\ rl_thread[t].pc = "sleep"
    /\ rl_clock >= rl_thread[t].wake
    /\ Step(t, [rl_thread[t] EXCEPT !.pc = "renow"])

\* Lines 49-50: now = time.time(); window_start = now - self.period
renow(t) ==
    /\ rl_thread[t].pc = "renow"
    /\ Step(t, Local("drop_test", 2, rl_clock, rl_clock - period, 0))

\* Line 55: self._calls.append(now), and acquire returns to _get.
append(t) ==
    /\ rl_thread[t].pc = "append"
    /\ rl_calls' = Append(rl_calls, rl_thread[t].now)
    /\ rl_admitted' = Append(rl_admitted, rl_thread[t].now)
    /\ rl_thread' = [rl_thread EXCEPT ![t].pc = "idle"]
    /\ get_thread' = [get_thread EXCEPT ![t].pc = "params", ![t].acquired = TRUE]
    /\ UNCHANGED <<rl_clock, rl_started, rl_raised, pipeVars, poolVars, sig, fetched>>

\* The local params shares the caller's dict object.
alias_params(arg) == [dict |-> arg.dict, shared |-> ~arg.none]

\* Lines 113-116: params = {} for None, else dict(params), a new dict object.
copy_params(arg) == [dict |-> arg.dict, shared |-> FALSE]

\* dict.setdefault(key, value)
setdefault(d, key, value) ==
    IF \E item \in d : item[1] = key THEN d ELSE d \cup {<<key, value>>}

\* Lines 113-119 of _get: the local params, with apikey set in it.
get_params(t) ==
    /\ get_thread[t].pc = "params"
    /\ LET loc == copy_params(get_thread[t].caller_params)
           d == setdefault(loc.dict, "apikey", api_key)
       IN  get_thread' = [get_thread EXCEPT
                             ![t].pc = "send",
                             ![t].params = d,
                             ![t].caller_params =
                                 IF loc.shared THEN OptionalDict(FALSE, d)
                                 ELSE get_thread[t].caller_params]
    /\ UNCHANGED <<rl_clock, rl_calls, rl_thread, rl_started, rl_admitted, rl_raised,
                   pipeVars, poolVars, sig, fetched>>

\* Lines 121-125 of _get: session.get(url, params=params), then the status
\* check and the JSON body, or an exception of either.
session_get(t) ==
    /\ get_thread[t].pc = "send"
    /\ \E outcome \in {"json", "http_error"} :
          get_thread' = [get_thread EXCEPT
                            ![t].pc = "idle",
                            ![t].gets = get_thread[t].gets + 1,
                            ![t].sent = [path |-> get_thread[t].request.path,
                                         params |-> get_thread[t].params],
                            ![t].outcome = outcome]
    /\ UNCHANGED <<rl_clock, rl_calls, rl_thread, rl_started, rl_admitted, rl_raised,
                   pipeVars, poolVars, sig, fetched>>

NextRL ==
    \/ Tick
    \/ \E t \in Threads :
          \/ get_call(t)
          \/ acquire_enter(t)
          \/ drop_test(t)
          \/ drop_peek(t)
          \/ drop_pop(t)
          \/ limit_test(t)
          \/ earliest(t)
          \/ wake_up(t)
          \/ renow(t)
          \/ append(t)
          \/ get_params(t)
          \/ session_get(t)

SpecRL == InitIngest /\ [][NextRL]_vars

\* The steps of a thread inside _get and acquire: once a public method is
\* called, the interpreter keeps scheduling the thread.
ThreadStep(t) ==
    \/ acquire_enter(t)
    \/ drop_test(t)
    \/ drop_peek(t)
    \/ drop_pop(t)
    \/ limit_test(t)
    \/ earliest(t)
    \/ wake_up(t)
    \/ renow(t)
    \/ append(t)
    \/ get_params(t)
    \/ session_get(t)

\* Time passes and every thread that can take a step is scheduled again;
\* nothing obliges a caller to make another call.
SpecRLFair ==
    /\ InitIngest
    /\ [][NextRL]_vars
    /\ WF_vars(Tick)
    /\ \A t \in Threads : WF_vars(ThreadStep(t))

\* ----------------------------------------------------- rate limiter: claims
\* C10: in every interleaving of the threads that share the limiter, at most
\* limit calls are admitted within any time window of length period (a call is
\* admitted at the timestamp acquire records as it returns).
C10_AtMostLimitPerWindow ==
    \A t \in 0..MaxTime :
        Cardinality({i \in DOMAIN rl_admitted :
                         t <= rl_admitted[i] /\ rl_admitted[i] < t + period}) <= limit

\* C16: acquire does not sleep while fewer than limit recorded calls have a
\* timestamp later than now - period, a recorded call of timestamp
\* <= now - period no longer counting against the limit: whenever a thread
\* begins to sleep, limit recorded calls at least are later than its
\* now - period.
C16_NoSleepUnderLimit ==
    [][\A t \in Threads :
          (rl_thread[t].pc = "earliest" /\ rl_thread'[t].pc = "sleep") =>
              Cardinality({i \in DOMAIN rl_admitted :
                               rl_admitted[i] > rl_thread[t].now - period}) >= limit]_vars

\* C17: a _get call makes one acquire call, issues no HTTP GET before acquire
\* has returned and one GET after it, to the method's path with the caller's
\* parameters and apikey, and leaves the caller's params as they were passed;
\* a call that ended with a reply or an HTTP error made exactly one GET.
C17_OneAcquireThenOneGet ==
    \A t \in Threads :
        LET g == get_thread[t]
        IN  /\ g.acquires <= 1
            /\ g.gets <= 1
            /\ g.pc \in {"params", "send"} => (g.acquires = 1 /\ g.acquired /\ g.gets = 0)
            /\ g.gets = 1 =>
                  /\ g.acquires = 1
                  /\ g.acquired
                  /\ g.sent.path = g.request.path
                  /\ g.sent.params = g.request.params.dict \cup {<<"apikey", "KEY">>}
            /\ g.outcome \in {"json", "http_error"} => g.gets = 1
            /\ g.caller_params = g.request.params

\* C17's case: a news request has got its reply, sent with symbols, limit and
\* apikey, while the other thread, whose acquire has not returned, has sent
\* nothing.
C17_Witness ==
    \E t, u \in Threads :
        /\ get_thread[t].request.method = "get_stock_news"
        /\ get_thread[t].outcome = "json"
        /\ get_thread[t].sent.params = {<<"symbols", "AAA">>, <<"limit", "50">>, <<"apikey", "KEY">>}
        /\ get_thread[u].pc = "in_acquire"
        /\ get_thread[u].gets = 0

\* C27: every acquire call eventually returns, having recorded its
\* timestamp, whatever the other threads do, and a sleep it begins is for at
\* most period seconds (a sleep that would end after the last instant MaxTime
\* of the clock is left aside).
C27_AcquireEventuallyReturns ==
    /\ [][\A t \in Threads :
             (rl_thread[t].pc = "earliest" /\ rl_thread'[t].pc = "sleep") =>
                 rl_thread'[t].wake - rl_clock <= period]_vars
    /\ \A t \in Threads :
          [](rl_thread[t].pc # "idle" =>
                <>(\/ rl_thread[t].pc = "idle" /\ get_thread[t].acquired
                   \/ rl_thread[t].pc = "sleep" /\ rl_thread[t].wake > MaxTime))

====
